---- MODULE Spec2Model ----
(***************************************************************************)
(* A model of the concurrency-bug checkers of staticcheck/lint.go: the     *)
(* lock taxonomy (isCallToLock, isCallToUnlock, getLockPrefix), the        *)
(* double-lock analysis (_isDoubleLock and its helpers), the SSA rewrite   *)
(* of applyStdlibKnowledge, Checker.Init and the AST-based checkers.       *)
(*                                                                         *)
(* Go strings are sequences of one-character strings, so that ToLower,     *)
(* Contains, Index and slicing are computed character by character.        *)
(***************************************************************************)
EXTENDS Integers, Sequences, FiniteSets, TLC

VARIABLES
    \* lock taxonomy: one call site and what the classifiers returned for it
    call, textPc, isLockRes, isUnlockRes, keyRes,
    \* the SSA program the double-lock analysis reads: prog[fn] is the
    \* sequence of blocks of fn, funcOrder the order of the initial functions
    prog, funcOrder,
    \* the last application of a helper of the analysis, and its result
    dlPc, dlFirst, dlSecond, dlKey, dlRes,
    \* CheckDoubleLock
    cdPc,               \* "start", "ranging" (over the map of keys), "done"
    lockInstructions,   \* key -> the lock instructions collected under it
    keysLeft,           \* the keys the range over the map has not yet produced
    diags,              \* the diagnostics emitted by the current run, in order
    run,                \* 1 or 2: the checker is run twice on one program
    firstDiags,         \* the diagnostics of the first run
    firstOrder,         \* the order of the initial functions in the first run
    \* applyStdlibKnowledge: the function as given, as it is now, as it was
    \* after the first application, and the number of applications
    rwOrig, rwFn, rwOnce, rwCount,
    \* Checker.Init: where the caller and the two goroutines are, the counter
    \* of the WaitGroup, and the state the goroutines write
    mainPc, t1Pc, t2Pc, wgCounter,
    funcDescs,          \* "nil" or "set"
    allFunctions,       \* prog.AllFunctions: [hasBlocks, rewritten, optimized]
    fnNext,             \* the place of the loop of T1 in allFunctions
    decls,              \* the documented declarations: [deprecated]
    declNext,           \* the place of findDeprecated in decls
    deprecatedObjs,     \* the map: nil, or made and with its keys
    checkerSaw,         \* what the first checker that ran found
    \* the AST checkers: the checker's flag, the files of the program, and
    \* the diagnostics of CheckWaitgroupAdd and CheckEmptyCriticalSection
    CheckGenerated, files, wgAddRan, wgAddDiags, emptyCsRan, emptyCsDiags,
    \* the SSA checkers CheckConcurrentTesting and CheckDeferLock: the program
    \* (function -> blocks), which checker ran, and its diagnostics
    ssaProg, ssaRan, ssaDiags

textVars == <<call, textPc, isLockRes, isUnlockRes, keyRes>>
lockVars == <<prog, funcOrder, dlPc, dlFirst, dlSecond, dlKey, dlRes>>
diagVars == <<cdPc, lockInstructions, keysLeft, diags, run, firstDiags, firstOrder>>

rewriteVars == <<rwOrig, rwFn, rwOnce, rwCount>>

initVars == <<mainPc, t1Pc, t2Pc, wgCounter, funcDescs, allFunctions, fnNext,
              decls, declNext, deprecatedObjs, checkerSaw>>
astVars == <<CheckGenerated, files, wgAddRan, wgAddDiags, emptyCsRan, emptyCsDiags>>

ssaVars == <<ssaProg, ssaRan, ssaDiags>>

vars == <<textVars, lockVars, diagVars, rewriteVars, initVars, astVars, ssaVars>>

\* What the actions of one part of the model leave alone.
TextFrame == UNCHANGED <<lockVars, diagVars, rewriteVars, initVars, astVars, ssaVars>>
LockFrame == UNCHANGED <<textVars, diagVars, rewriteVars, initVars, astVars, ssaVars>>
DiagFrame == UNCHANGED <<textVars, rewriteVars, initVars, astVars, ssaVars>>
RewriteFrame == UNCHANGED <<textVars, lockVars, diagVars, initVars, astVars, ssaVars>>
InitFrame == UNCHANGED <<textVars, lockVars, diagVars, rewriteVars, astVars, ssaVars>>
SsaFrame == UNCHANGED <<textVars, lockVars, diagVars, rewriteVars, initVars, astVars>>
AstFrame == UNCHANGED <<textVars, lockVars, diagVars, rewriteVars, initVars, ssaVars>>

----------------------------------------------------------------------------
(* Strings are sequences of characters.  Lit holds the string literals of  *)
(* the source.                                                             *)

Lit ==
    [MutexLock |-> <<"(", "*", "s", "y", "n", "c", ".", "M", "u", "t", "e", "x", ")", ".", "L", "o", "c", "k">>,
     RWMutexRLock |-> <<"(", "*", "s", "y", "n", "c", ".", "R", "W", "M", "u", "t", "e", "x", ")", ".", "R", "L", "o", "c", "k">>,
     RWMutexLock |-> <<"(", "*", "s", "y", "n", "c", ".", "R", "W", "M", "u", "t", "e", "x", ")", ".", "L", "o", "c", "k">>,
     MutexUnlock |-> <<"(", "*", "s", "y", "n", "c", ".", "M", "u", "t", "e", "x", ")", ".", "U", "n", "l", "o", "c", "k">>,
     RWMutexRUnlock |-> <<"(", "*", "s", "y", "n", "c", ".", "R", "W", "M", "u", "t", "e", "x", ")", ".", "R", "U", "n", "l", "o", "c", "k">>,
     RWMutexUnLock |-> <<"(", "*", "s", "y", "n", "c", ".", "R", "W", "M", "u", "t", "e", "x", ")", ".", "U", "n", "L", "o", "c", "k">>,
     DotLock |-> <<".", "l", "o", "c", "k", "(">>,
     DotRLock |-> <<".", "r", "l", "o", "c", "k", "(">>,
     DotUnlock |-> <<".", "u", "n", "l", "o", "c", "k">>,
     DotRUnlock |-> <<".", "r", "u", "n", "l", "o", "c", "k">>,
     Invoke |-> <<"i", "n", "v", "o", "k", "e">>,
     Space |-> <<" ">>,
     Dot |-> <<".">>]

(* Txt holds the names and renderings of the callees and operands the      *)
(* modelled programs use: user methods on a type p.T, package functions,   *)
(* SSA value names, and the pieces of the rendering of a call.             *)
Txt ==
    [UserLock |-> <<"(", "*", "T", ")", ".", "L", "o", "c", "k">>,
     UserLockFull |-> <<"(", "*", "p", ".", "T", ")", ".", "L", "o", "c", "k">>,
     UserLocker |-> <<"(", "*", "T", ")", ".", "L", "o", "c", "k", "e", "r">>,
     UserLockerFull |-> <<"(", "*", "p", ".", "T", ")", ".", "L", "o", "c", "k", "e", "r">>,
     UserRlock |-> <<"(", "*", "T", ")", ".", "r", "l", "o", "c", "k">>,
     UserRlockFull |-> <<"(", "*", "p", ".", "T", ")", ".", "r", "l", "o", "c", "k">>,
     UserUnlock |-> <<"(", "*", "T", ")", ".", "U", "n", "l", "o", "c", "k">>,
     UserUnlockFull |-> <<"(", "*", "p", ".", "T", ")", ".", "U", "n", "l", "o", "c", "k">>,
     Invoker |-> <<"i", "n", "v", "o", "k", "e", "r">>,
     InvokerFull |-> <<"p", ".", "i", "n", "v", "o", "k", "e", "r">>,
     G |-> <<"g">>,
     PG |-> <<"p", ".", "g">>,
     T0 |-> <<"t", "0">>,
     T1 |-> <<"t", "1">>,
     T65 |-> <<"t", "6", "5">>,
     NameLock |-> <<"L", "o", "c", "k">>,
     NameRLock |-> <<"R", "L", "o", "c", "k">>,
     NameUnlock |-> <<"U", "n", "l", "o", "c", "k">>,
     NameDo |-> <<"D", "o">>,
     InvokeSp |-> <<"i", "n", "v", "o", "k", "e", " ">>,
     CommaSp |-> <<",", " ">>,
     LParen |-> <<"(">>,
     RParen |-> <<")">>,
     Empty |-> <<>>,
     F |-> <<"f">>,
     PF |-> <<"p", ".", "f">>]

----------------------------------------------------------------------------
(* The string functions of the Go library that the classifiers call.       *)

ToLowerChar(c) ==
    CASE c = "A" -> "a" [] c = "B" -> "b" [] c = "C" -> "c" [] c = "D" -> "d"
      [] c = "E" -> "e" [] c = "F" -> "f" [] c = "G" -> "g" [] c = "H" -> "h"
      [] c = "I" -> "i" [] c = "J" -> "j" [] c = "K" -> "k" [] c = "L" -> "l"
      [] c = "M" -> "m" [] c = "N" -> "n" [] c = "O" -> "o" [] c = "P" -> "p"
      [] c = "Q" -> "q" [] c = "R" -> "r" [] c = "S" -> "s" [] c = "T" -> "t"
      [] c = "U" -> "u" [] c = "V" -> "v" [] c = "W" -> "w" [] c = "X" -> "x"
      [] c = "Y" -> "y" [] c = "Z" -> "z" [] OTHER -> c

\* strings.ToLower
stringsToLower(s) == [i \in 1..Len(s) |-> ToLowerChar(s[i])]

RECURSIVE IndexFrom(_, _, _)
IndexFrom(s, sub, i) ==
    IF i + Len(sub) - 1 > Len(s) THEN -1
    ELSE IF SubSeq(s, i, i + Len(sub) - 1) = sub THEN i - 1
    ELSE IndexFrom(s, sub, i + 1)

\* strings.Index: the 0-based index of the first occurrence of sub, or -1
stringsIndex(s, sub) == IndexFrom(s, sub, 1)

\* strings.Contains
stringsContains(s, sub) == stringsIndex(s, sub) >= 0

\* The Go slice expression s[start:end] (0-based, end exclusive).
GoSlice(s, start, end) == SubSeq(s, start + 1, end)

----------------------------------------------------------------------------
(* ssa.CallCommon.  A call site is a record                                *)
(*   invoke   : dynamic dispatch (IsInvoke)                                *)
(*   value    : the rendering of Value (callee for a static call, receiver *)
(*              for an invoke)                                             *)
(*   fullName : types.Func.FullName of a static callee                     *)
(*   method   : the method name of an invoke                               *)
(*   args     : the renderings of Args                                     *)

RECURSIVE JoinArgs(_)
JoinArgs(args) ==
    IF Len(args) = 0 THEN Txt.Empty
    ELSE IF Len(args) = 1 THEN args[1]
    ELSE args[1] \o Txt.CommaSp \o JoinArgs(Tail(args))

\* CallCommon.String(): "f(a, b)" or "invoke v.m(a, b)"
CallString(c) ==
    IF c.invoke
    THEN Txt.InvokeSp \o c.value \o Lit.Dot \o c.method \o Txt.LParen \o JoinArgs(c.args) \o Txt.RParen
    ELSE c.value \o Txt.LParen \o JoinArgs(c.args) \o Txt.RParen

\* lintdsl.CallName: the full name of a static callee, "" for an invoke
CallName(c) == IF c.invoke THEN Txt.Empty ELSE c.fullName

\* lintdsl.IsCallTo
IsCallTo(c, name) == CallName(c) = name

\* A variant that forgets the argument-count test of the textual heuristic.
isCallToLockNoArgTest(callCommon) ==
    \/ IsCallTo(callCommon, Lit.MutexLock)
    \/ IsCallTo(callCommon, Lit.RWMutexRLock)
    \/ IsCallTo(callCommon, Lit.RWMutexLock)
    \/ LET callStr == stringsToLower(CallString(callCommon))
       IN  stringsContains(callStr, Lit.DotLock) \/ stringsContains(callStr, Lit.DotRLock)

isCallToLock(callCommon) ==
    IF \/ IsCallTo(callCommon, Lit.MutexLock)
       \/ IsCallTo(callCommon, Lit.RWMutexRLock)
       \/ IsCallTo(callCommon, Lit.RWMutexLock)
    THEN TRUE
    ELSE LET callStr == stringsToLower(CallString(callCommon))
         IN  IF stringsContains(callStr, Lit.DotLock) \/ stringsContains(callStr, Lit.DotRLock)
             THEN IF Len(callCommon.args) > 1 THEN FALSE ELSE TRUE
             ELSE FALSE

isCallToUnlock(callCommon) ==
    IF \/ IsCallTo(callCommon, Lit.MutexUnlock)
       \/ IsCallTo(callCommon, Lit.RWMutexRUnlock)
       \/ IsCallTo(callCommon, Lit.RWMutexUnLock)
    THEN TRUE
    ELSE LET callStr == stringsToLower(CallString(callCommon))
         IN  stringsContains(callStr, Lit.DotUnlock) \/ stringsContains(callStr, Lit.DotRUnlock)

\* What a Go slice expression with start > end does.
PanicKey == <<"panic: slice bounds out of range">>

getLockPrefix(callCommon) ==
    IF Len(callCommon.args) < 1
    THEN LET lockStr == CallString(callCommon)
             start == stringsIndex(lockStr, Lit.Space)
             end == stringsIndex(lockStr, Lit.Dot)
         IN  IF stringsContains(lockStr, Lit.Invoke) /\ start # -1 /\ end # -1
             THEN IF start > end THEN PanicKey ELSE GoSlice(lockStr, start, end)
             ELSE lockStr
    ELSE callCommon.args[1]

----------------------------------------------------------------------------
(* The call sites the classifiers are applied to.                          *)

MaxArgs == 2

\* SSA value names used as operands
ValueNames == {Txt.T0, Txt.T1, Txt.T65}

\* Static callees: rendering, full name, and the argument counts a call to
\* them can have (a method has its receiver as argument 0).
StaticCallees ==
    {[rel |-> Lit.MutexLock, full |-> Lit.MutexLock, minArgs |-> 1, maxArgs |-> 1],
     [rel |-> Lit.RWMutexRLock, full |-> Lit.RWMutexRLock, minArgs |-> 1, maxArgs |-> 1],
     [rel |-> Lit.RWMutexLock, full |-> Lit.RWMutexLock, minArgs |-> 1, maxArgs |-> 1],
     [rel |-> Lit.MutexUnlock, full |-> Lit.MutexUnlock, minArgs |-> 1, maxArgs |-> 1],
     [rel |-> Lit.RWMutexRUnlock, full |-> Lit.RWMutexRUnlock, minArgs |-> 1, maxArgs |-> 1],
     [rel |-> Txt.UserLock, full |-> Txt.UserLockFull, minArgs |-> 1, maxArgs |-> MaxArgs],
     [rel |-> Txt.UserLocker, full |-> Txt.UserLockerFull, minArgs |-> 1, maxArgs |-> MaxArgs],
     [rel |-> Txt.UserRlock, full |-> Txt.UserRlockFull, minArgs |-> 1, maxArgs |-> MaxArgs],
     [rel |-> Txt.UserUnlock, full |-> Txt.UserUnlockFull, minArgs |-> 1, maxArgs |-> MaxArgs],
     [rel |-> Txt.Invoker, full |-> Txt.InvokerFull, minArgs |-> 0, maxArgs |-> MaxArgs],
     [rel |-> Txt.G, full |-> Txt.PG, minArgs |-> 0, maxArgs |-> MaxArgs]}

InvokeMethods == {Txt.NameLock, Txt.NameRLock, Txt.NameUnlock, Txt.NameDo}

ArgLists(lo, hi) == UNION {[1..n -> ValueNames] : n \in lo..hi}

StaticCalls ==
    {[invoke |-> FALSE, value |-> e.rel, fullName |-> e.full, method |-> Txt.Empty, args |-> a] :
        e \in StaticCallees, a \in ArgLists(0, MaxArgs)}

AllCalls ==
    {c \in StaticCalls :
        \E e \in StaticCallees :
            /\ e.rel = c.value
            /\ Len(c.args) >= e.minArgs
            /\ Len(c.args) <= e.maxArgs}
    \cup
    {[invoke |-> TRUE, value |-> v, fullName |-> Txt.Empty, method |-> m, args |-> a] :
        v \in ValueNames, m \in InvokeMethods, a \in ArgLists(0, MaxArgs)}

TextInit ==
    /\ call \in AllCalls
    /\ textPc = "input"
    /\ isLockRes = FALSE
    /\ isUnlockRes = FALSE
    /\ keyRes = Txt.Empty

\* isCallToLock and isCallToUnlock applied to the call site
ClassifyCall ==
    /\ textPc = "input"
    /\ isLockRes' = isCallToLock(call)
    /\ isUnlockRes' = isCallToUnlock(call)
    /\ textPc' = "classified"
    /\ UNCHANGED <<call, keyRes>>
    /\ TextFrame

\* getLockPrefix applied to the call site
DeriveKey ==
    /\ textPc = "classified"
    /\ keyRes' = getLockPrefix(call)
    /\ textPc' = "keyed"
    /\ UNCHANGED <<call, isLockRes, isUnlockRes>>
    /\ TextFrame

TextNext == ClassifyCall \/ DeriveKey

----------------------------------------------------------------------------
(* Claims about the lock taxonomy.                                         *)

KnownLockCallee(c) ==
    ~c.invoke /\ c.fullName \in {Lit.MutexLock, Lit.RWMutexRLock, Lit.RWMutexLock}

\* The lowercased form of s has pat at some position.
LowerHas(s, pat) ==
    \E i \in 1..Len(s) :
        /\ i + Len(pat) - 1 <= Len(s)
        /\ \A j \in 1..Len(pat) : ToLowerChar(s[i + j - 1]) = pat[j]

TextLooksLikeLock(c) ==
    LowerHas(CallString(c), Lit.DotLock) \/ LowerHas(CallString(c), Lit.DotRLock)

\* C7: isCallToLock(c) is true exactly when c's callee is (*sync.Mutex).Lock,
\* (*sync.RWMutex).RLock or (*sync.RWMutex).Lock, or the lowercased rendering
\* of c contains ".lock(" or ".rlock(" and c has at most one argument; a call
\* with more than one argument never passes by the textual heuristic.
C7_IsCallToLockExact ==
    textPc # "input" =>
        /\ isLockRes <=>
              \/ KnownLockCallee(call)
              \/ (TextLooksLikeLock(call) /\ Len(call.args) <= 1)
        /\ (Len(call.args) > 1 /\ ~KnownLockCallee(call)) => ~isLockRes

\* A call whose rendering contains ".lock(", with two arguments, was classified.
C7_Witness ==
    /\ textPc = "classified"
    /\ Len(call.args) > 1
    /\ TextLooksLikeLock(call)
    /\ ~isLockRes

\* The key as the claim describes it: argument 0; else, for a rendering that
\* contains "invoke", the text after the first space and before the first dot;
\* else the full rendering.
ClaimedLockKey(c) ==
    LET str == CallString(c)
        sp == CHOOSE i \in 1..Len(str) : str[i] = " " /\ \A j \in 1..(i - 1) : str[j] # " "
        dt == CHOOSE i \in 1..Len(str) : str[i] = "." /\ \A j \in 1..(i - 1) : str[j] # "."
    IN  IF Len(c.args) >= 1 THEN c.args[1]
        ELSE IF /\ \E i \in 1..Len(str) : SubSeq(str, i, i + Len(Lit.Invoke) - 1) = Lit.Invoke
                /\ \E i \in 1..Len(str) : str[i] = " "
                /\ \E i \in 1..Len(str) : str[i] = "."
             THEN SubSeq(str, sp + 1, dt - 1)
             ELSE str

\* C8: getLockPrefix yields argument 0 when there is one; else, for a rendering
\* containing "invoke", the substring between the first space and the first
\* dot, the space itself not included; else the full rendering.
C8_KeyByThreeCases ==
    (textPc = "keyed" /\ isLockRes) => keyRes = ClaimedLockKey(call)

----------------------------------------------------------------------------
(* The SSA program the double-lock analysis reads.                         *)
(*   prog[fn]  : the blocks of function fn, in order                       *)
(*   a block   : [Instrs : sequence of instructions,                       *)
(*                Succs  : sequence of block numbers of the same function] *)
(*   an instruction : [kind : "Call", "Go" or "Defer",                     *)
(*                     call : its CallCommon,                              *)
(*                     target : the static callee among the program's      *)
(*                              functions, or "none"]                      *)
(* An instruction is identified by its place [fn, b, i], which also stands *)
(* for its source position.                                                *)


FuncNames == {"f", "g"}

FuncRel(fn) == IF fn = "f" THEN Txt.F ELSE Txt.G
FuncFull(fn) == IF fn = "f" THEN Txt.PF ELSE Txt.PG

NoCall == [invoke |-> FALSE, value |-> Txt.Empty, fullName |-> Txt.Empty, method |-> Txt.Empty, args |-> <<>>]

LockI(k) ==
    [kind |-> "Call", target |-> "none",
     call |-> [invoke |-> FALSE, value |-> Lit.MutexLock, fullName |-> Lit.MutexLock,
               method |-> Txt.Empty, args |-> <<k>>]]
RLockI(k) ==
    [kind |-> "Call", target |-> "none",
     call |-> [invoke |-> FALSE, value |-> Lit.RWMutexRLock, fullName |-> Lit.RWMutexRLock,
               method |-> Txt.Empty, args |-> <<k>>]]
UnlockI(k) ==
    [kind |-> "Call", target |-> "none",
     call |-> [invoke |-> FALSE, value |-> Lit.MutexUnlock, fullName |-> Lit.MutexUnlock,
               method |-> Txt.Empty, args |-> <<k>>]]
CallI(fn) ==
    [kind |-> "Call", target |-> fn,
     call |-> [invoke |-> FALSE, value |-> FuncRel(fn), fullName |-> FuncFull(fn),
               method |-> Txt.Empty, args |-> <<>>]]
GoI(fn) ==
    [kind |-> "Go", target |-> fn,
     call |-> [invoke |-> FALSE, value |-> FuncRel(fn), fullName |-> FuncFull(fn),
               method |-> Txt.Empty, args |-> <<>>]]
DeferI(fn) ==
    [kind |-> "Defer", target |-> fn,
     call |-> [invoke |-> FALSE, value |-> FuncRel(fn), fullName |-> FuncFull(fn),
               method |-> Txt.Empty, args |-> <<>>]]

Ref(fn, b, i) == [fn |-> fn, b |-> b, i |-> i]
BlockRef(fn, b) == [fn |-> fn, b |-> b]
InstrAt(r) == prog[r.fn][r.b].Instrs[r.i]
BlockOf(r) == BlockRef(r.fn, r.b)
BlockInstrs(n) == prog[n.fn][n.b].Instrs

AllRefs ==
    UNION {UNION {{Ref(fn, b, i) : i \in 1..Len(prog[fn][b].Instrs)} :
                    b \in 1..Len(prog[fn])} : fn \in FuncNames}

CallRefs == {r \in AllRefs : InstrAt(r).kind = "Call"}

Min(S) == CHOOSE x \in S : \A y \in S : x <= y

----------------------------------------------------------------------------
(* shortCallName: "" for an invoke, else the name of the callee, which is  *)
(* the part of its full name after the last dot.                           *)

RECURSIVE AfterLastDot(_)
AfterLastDot(s) ==
    IF stringsIndex(s, Lit.Dot) = -1 THEN s
    ELSE AfterLastDot(SubSeq(s, stringsIndex(s, Lit.Dot) + 2, Len(s)))

shortCallName(c) == IF c.invoke THEN Txt.Empty ELSE AfterLastDot(c.fullName)

----------------------------------------------------------------------------
(* functions.Descriptions: the loops of a function and the call graph.     *)

SuccSet(fn, n) == {prog[fn][n].Succs[k] : k \in 1..Len(prog[fn][n].Succs)}

\* The blocks of fn reached from the blocks of frontier by one or more edges.
RECURSIVE ReachFrom(_, _, _)
ReachFrom(fn, frontier, seen) ==
    LET next == UNION {SuccSet(fn, n) : n \in frontier}
    IN  IF next \subseteq seen THEN seen
        ELSE ReachFrom(fn, next \ seen, seen \cup next)

\* Checker.isInLoop: the block belongs to one of the loops of its function,
\* i.e. it lies on a cycle of the control-flow graph.
isInLoop(n) == n.b \in ReachFrom(n.fn, {n.b}, {})

\* The call-graph edges leaving fn, in instruction order: one edge per call,
\* go or defer instruction with a static callee.
RECURSIVE EdgesOfBlock(_, _, _)
EdgesOfBlock(fn, b, i) ==
    IF i > Len(prog[fn][b].Instrs) THEN <<>>
    ELSE LET ins == prog[fn][b].Instrs[i]
         IN  (IF ins.kind \in {"Call", "Go", "Defer"} /\ ins.target # "none"
              THEN <<[Site |-> Ref(fn, b, i), Callee |-> ins.target]>>
              ELSE <<>>) \o EdgesOfBlock(fn, b, i + 1)

RECURSIVE EdgesFromBlock(_, _)
EdgesFromBlock(fn, b) ==
    IF b > Len(prog[fn]) THEN <<>>
    ELSE EdgesOfBlock(fn, b, 1) \o EdgesFromBlock(fn, b + 1)

OutEdges(fn) == EdgesFromBlock(fn, 1)

\* callgraph.PathSearchIgnoreGoCall: a depth-first search from src for a
\* function satisfying the predicate (here: being dst) that does not follow
\* the edges of go instructions.  The result is the stack of edges: empty
\* when src itself is dst, and empty when nothing is found.
RECURSIVE PathSearchFrom(_, _, _)
PathSearchFrom(n, dst, onStack) ==
    IF n = dst THEN [found |-> TRUE, path |-> <<>>]
    ELSE LET out == OutEdges(n)
             good == {k \in 1..Len(out) :
                        /\ InstrAt(out[k].Site).kind # "Go"
                        /\ out[k].Callee \notin onStack \cup {n}
                        /\ PathSearchFrom(out[k].Callee, dst, onStack \cup {n}).found}
         IN  IF good = {} THEN [found |-> FALSE, path |-> <<>>]
             ELSE [found |-> TRUE,
                   path |-> <<out[Min(good)]>> \o
                            PathSearchFrom(out[Min(good)].Callee, dst, onStack \cup {n}).path]

PathSearchIgnoreGoCall(src, dst) == PathSearchFrom(src, dst, {}).path

----------------------------------------------------------------------------
(* bbcallgraph: the basic-block graph of a function and its path search.   *)

\* LockPathSearch: is there a non-empty path of successor edges from src to
\* dst all of whose intermediate nodes satisfy the predicate?  keep is the
\* set of blocks that satisfy it.
RECURSIVE PathClosure(_, _, _, _)
PathClosure(fn, frontier, seen, keep) ==
    LET next == UNION {SuccSet(fn, n) : n \in frontier}
    IN  IF next \subseteq seen THEN seen
        ELSE PathClosure(fn, (next \ seen) \cap keep, seen \cup next, keep)

LockPathSearch(src, dst, keep) ==
    /\ src.fn = dst.fn
    /\ dst.b \in PathClosure(src.fn, {src.b}, {}, keep \ {dst.b})

----------------------------------------------------------------------------
(* The helpers of the double-lock analysis.                                *)

IsUnlockOf(ins, key) ==
    ins.kind = "Call" /\ isCallToUnlock(ins.call) /\ getLockPrefix(ins.call) = key
IsLockOf(ins, key) ==
    ins.kind = "Call" /\ isCallToLock(ins.call) /\ getLockPrefix(ins.call) = key

\* The scan of isLockToLockInSameBlock from instruction idx of fLock's block
\* on, with the indices found so far (Go indices, -1 for none).
RECURSIVE ScanLockToLock(_, _, _, _, _)
ScanLockToLock(fLock, sLock, idx, fInstrIndex, sInstrIndex) ==
    LET curBlock == BlockOf(fLock)
        instrs == BlockInstrs(curBlock)
    IN  IF idx > Len(instrs) THEN fInstrIndex < sInstrIndex
        ELSE LET ins == instrs[idx]
                 index == idx - 1
                 here == Ref(curBlock.fn, curBlock.b, idx)
                 fIdx == IF here = fLock THEN index ELSE fInstrIndex
                 sIdx == IF here = sLock THEN index ELSE sInstrIndex
             IN  IF ins.kind # "Call"
                 THEN ScanLockToLock(fLock, sLock, idx + 1, fInstrIndex, sInstrIndex)
                 ELSE IF /\ isCallToUnlock(ins.call)
                         /\ getLockPrefix(ins.call) = getLockPrefix(InstrAt(fLock).call)
                         /\ \/ (fIdx < index /\ sInstrIndex = -1 /\ fIdx # -1)
                            \/ (sInstrIndex < index /\ fIdx = -1 /\ sInstrIndex # -1)
                      THEN FALSE
                      ELSE ScanLockToLock(fLock, sLock, idx + 1, fIdx, sIdx)

\* A variant that does not look at the unlocks of the block.
isLockToLockIgnoringUnlock(fLock, sLock) == fLock.i < sLock.i

isLockToLockInSameBlock(fLock, sLock) == ScanLockToLock(fLock, sLock, 1, -1, -1)

\* The Go index of the last place of the block among hits, -1 when there is
\* none: what a loop that overwrites the index leaves.
LastIndex(hits) ==
    IF hits = {} THEN -1 ELSE (CHOOSE i \in hits : \A j \in hits : j <= i) - 1

LastLockIndex(n, key) ==
    LastIndex({i \in 1..Len(BlockInstrs(n)) : IsLockOf(BlockInstrs(n)[i], key)})

LastUnlockIndex(n, key) ==
    LastIndex({i \in 1..Len(BlockInstrs(n)) : IsUnlockOf(BlockInstrs(n)[i], key)})

\* A variant that requires an unlock to be present.
isUnlockBeforeLockStrict(sNode, lockKey) ==
    LET lockIndex == LastLockIndex(sNode, lockKey)
        unLockIndex == LastUnlockIndex(sNode, lockKey)
    IN  unLockIndex # -1 /\ unLockIndex < lockIndex

isUnlockBeforeLock(sNode, lockKey) ==
    LET lockIndex == LastLockIndex(sNode, lockKey)
        unLockIndex == LastUnlockIndex(sNode, lockKey)
    IN  unLockIndex < lockIndex

\* The predicate findPath hands to LockPathSearch: false when an unlock of
\* the key comes before the first lock of the key in the node.
RECURSIVE ScanPrune(_, _, _)
ScanPrune(n, lockKey, idx) ==
    IF idx > Len(BlockInstrs(n)) THEN TRUE
    ELSE LET ins == BlockInstrs(n)[idx]
         IN  IF ins.kind # "Call" THEN ScanPrune(n, lockKey, idx + 1)
             ELSE IF isCallToUnlock(ins.call) /\ getLockPrefix(ins.call) = lockKey THEN FALSE
             ELSE IF isCallToLock(ins.call) /\ getLockPrefix(ins.call) = lockKey THEN TRUE
             ELSE ScanPrune(n, lockKey, idx + 1)

pruneNoUnlock(n, lockKey) == ScanPrune(n, lockKey, 1)

findPath(fNode, sNode, lockKey) ==
    LET unlockInFNode == \E i \in 1..Len(BlockInstrs(fNode)) :
                            IsUnlockOf(BlockInstrs(fNode)[i], lockKey)
        isNeededSearch == ~unlockInFNode /\ ~isUnlockBeforeLock(sNode, lockKey)
    IN  /\ isNeededSearch
        /\ LockPathSearch(fNode, sNode,
               {b \in 1..Len(prog[fNode.fn]) : pruneNoUnlock(BlockRef(fNode.fn, b), lockKey)})

\* The cross-function part of _isDoubleLock, taken when the search within
\* the function found nothing.
crossFunction(fInstr, sInstr, lockKey) ==
    LET pathResult == PathSearchIgnoreGoCall(fInstr.fn, sInstr.fn)
    IN  IF Len(pathResult) > 0
        THEN IF isUnlockBeforeLock(BlockOf(sInstr), lockKey) THEN FALSE
             ELSE LET callInstruction == pathResult[1].Site
                  IN  IF InstrAt(callInstruction).kind # "Call" THEN FALSE
                      ELSE IF BlockOf(fInstr) = BlockOf(callInstruction)
                      THEN isLockToLockInSameBlock(fInstr, callInstruction)
                      ELSE findPath(BlockOf(fInstr), BlockOf(callInstruction), lockKey)
        ELSE FALSE

_isDoubleLock(fInstr, sInstr, lockKey) ==
    IF shortCallName(InstrAt(fInstr).call) # shortCallName(InstrAt(sInstr).call) THEN FALSE
    ELSE LET isNotNeedFindPathSearch ==
                 IF BlockOf(fInstr) = BlockOf(sInstr)
                 THEN \/ isLockToLockInSameBlock(fInstr, sInstr)
                      \/ /\ isInLoop(BlockOf(fInstr))
                         /\ findPath(BlockOf(fInstr), BlockOf(sInstr), lockKey)
                 ELSE IF fInstr.fn = sInstr.fn
                 THEN findPath(BlockOf(fInstr), BlockOf(sInstr), lockKey)
                 ELSE FALSE
         IN  IF ~isNotNeedFindPathSearch
             THEN crossFunction(fInstr, sInstr, lockKey)
             ELSE TRUE

----------------------------------------------------------------------------
(* The programs the analysis is applied to.                                *)

MaxInstrs == 3
MaxCalleeInstrs == 2
MaxPathInstrs == 2

\* All instruction lists of at most n instructions drawn from cat.
InstrLists(cat, n) == UNION {[1..k -> cat] : k \in 0..n}

Block(instrs, succs) == [Instrs |-> instrs, Succs |-> succs]

NoBlocks == <<>>

\* One function of a single block of at most n instructions, which may loop
\* back to itself and may call itself; the other function has no body.
LoopPrograms(n) ==
    {[f |-> <<Block(is, ss)>>, g |-> NoBlocks] :
        is \in InstrLists({LockI(Txt.T0), RLockI(Txt.T0), UnlockI(Txt.T0), UnlockI(Txt.T1), CallI("f")}, n),
        ss \in {<<>>, <<1>>}}

\* f calls, starts or defers g; both are single blocks, of at most n and m
\* instructions.
CrossPrograms(n, m) ==
    {[f |-> <<Block(fi, <<>>)>>, g |-> <<Block(gi, <<>>)>>] :
        fi \in InstrLists({LockI(Txt.T0), UnlockI(Txt.T0), CallI("g"), GoI("g"), DeferI("g")}, n),
        gi \in InstrLists({LockI(Txt.T0), UnlockI(Txt.T0)}, m)}

\* The control-flow shapes of a function of three blocks.
PathShapes ==
    {<<<<2>>, <<3>>, <<>>>>,
     <<<<2, 3>>, <<3>>, <<>>>>,
     <<<<2, 3>>, <<>>, <<>>>>,
     <<<<2>>, <<3, 1>>, <<>>>>,
     <<<<3>>, <<>>, <<2>>>>}

HasLock(is) == \E i \in 1..Len(is) : is[i] = LockI(Txt.T0)

\* What the block between the two end blocks may hold.
MiddleBlocks ==
    {<<>>, <<LockI(Txt.T0)>>, <<UnlockI(Txt.T0)>>, <<UnlockI(Txt.T0), LockI(Txt.T0)>>,
     <<LockI(Txt.T0), UnlockI(Txt.T0)>>}

\* One function of three blocks; the first and the third hold a lock among
\* at most n instructions.
PathPrograms(n) ==
    {[f |-> <<Block(b1, sh[1]), Block(b2, sh[2]), Block(b3, sh[3])>>, g |-> NoBlocks] :
        b1 \in {is \in InstrLists({LockI(Txt.T0), UnlockI(Txt.T0)}, n) : HasLock(is)},
        b2 \in MiddleBlocks,
        b3 \in {is \in InstrLists({LockI(Txt.T0), UnlockI(Txt.T0)}, n) : HasLock(is)},
        sh \in PathShapes}

LockKeys == {Txt.T0, Txt.T1}

\* The lock instructions collectLockInstrs files under key.
LockRefs(key) == {r \in CallRefs : IsLockOf(InstrAt(r), key)}

NoRef == Ref("f", 0, 0)

LockInit ==
    /\ \/ prog \in LoopPrograms(MaxInstrs)
       \/ prog \in CrossPrograms(MaxInstrs, MaxCalleeInstrs)
       \/ prog \in PathPrograms(MaxPathInstrs)
    /\ funcOrder = <<"f", "g">>
    /\ dlPc = "input"
    /\ dlFirst = NoRef
    /\ dlSecond = NoRef
    /\ dlKey = Txt.Empty
    /\ dlRes = FALSE

\* _isDoubleLock applied to two lock instructions of one key, as
\* CheckDoubleLock applies it.
ApplyIsDoubleLock ==
    /\ dlPc = "input"
    /\ \E key \in LockKeys :
        \E fInstr \in LockRefs(key), sInstr \in LockRefs(key) :
            /\ dlFirst' = fInstr
            /\ dlSecond' = sInstr
            /\ dlKey' = key
            /\ dlRes' = _isDoubleLock(fInstr, sInstr, key)
    /\ dlPc' = "pair"
    /\ UNCHANGED <<prog, funcOrder>>
    /\ LockFrame

\* isUnlockBeforeLock applied to a block and a key.
ApplyIsUnlockBeforeLock ==
    /\ dlPc = "input"
    /\ \E key \in LockKeys, fn \in FuncNames :
        \E b \in 1..Len(prog[fn]) :
            /\ dlFirst' = Ref(fn, b, 0)
            /\ dlSecond' = NoRef
            /\ dlKey' = key
            /\ dlRes' = isUnlockBeforeLock(BlockRef(fn, b), key)
    /\ dlPc' = "block"
    /\ UNCHANGED <<prog, funcOrder>>
    /\ LockFrame

\* isLockToLockInSameBlock applied as _isDoubleLock applies it: to a lock
\* call and, in the same block, a lock call of the same key or the call of a
\* function of the program.
ApplyIsLockToLockInSameBlock ==
    /\ dlPc = "input"
    /\ \E key \in LockKeys :
        \E fLock \in LockRefs(key) :
            \E sLock \in {r \in CallRefs : /\ BlockOf(r) = BlockOf(fLock)
                                           /\ \/ IsLockOf(InstrAt(r), key)
                                              \/ InstrAt(r).target # "none"} :
                /\ dlFirst' = fLock
                /\ dlSecond' = sLock
                /\ dlKey' = key
                /\ dlRes' = isLockToLockInSameBlock(fLock, sLock)
    /\ dlPc' = "same"
    /\ UNCHANGED <<prog, funcOrder>>
    /\ LockFrame

LockNext ==
    \/ ApplyIsDoubleLock
    \/ ApplyIsUnlockBeforeLock
    \/ ApplyIsLockToLockInSameBlock

----------------------------------------------------------------------------
(* Claims about the helpers of the double-lock analysis.                   *)

HasUnlockOf(n, key) == \E i \in 1..Len(BlockInstrs(n)) : IsUnlockOf(BlockInstrs(n)[i], key)

\* A path of one or more edges leads from the block back to itself, no node
\* of which unlocks the key before locking it, and the block itself does not
\* unlock the key.
CleanCycle(n, key) ==
    /\ ~HasUnlockOf(n, key)
    /\ LockPathSearch(n, n, {b \in 1..Len(prog[n.fn]) : pruneNoUnlock(BlockRef(n.fn, b), key)})

\* C2: for every lock call L with key k, _isDoubleLock(L, L, k) is true if and
\* only if L's block is inside a loop and a lock path leads from the block
\* back to itself with no unlock of k on it.
C2_SelfPairIffLoopPath ==
    (dlPc = "pair" /\ dlFirst = dlSecond) =>
        (dlRes <=> (isInLoop(BlockOf(dlFirst)) /\ CleanCycle(BlockOf(dlFirst), dlKey)))

\* The last unlock of the key in the block comes before its last lock of the key.
UnlockPrecedesLock(n, key) ==
    \E u \in 1..Len(BlockInstrs(n)) :
        /\ IsUnlockOf(BlockInstrs(n)[u], key)
        /\ \A j \in (u + 1)..Len(BlockInstrs(n)) : ~IsUnlockOf(BlockInstrs(n)[j], key)
        /\ \E l \in (u + 1)..Len(BlockInstrs(n)) : IsLockOf(BlockInstrs(n)[l], key)

\* C10: isUnlockBeforeLock(block, key) is true if and only if the block holds
\* an unlock of key and its last unlock of key comes before its last lock of
\* key; it is false for a block with a lock of key and no unlock of key.
C10_UnlockBeforeLockIff ==
    dlPc = "block" => (dlRes <=> UnlockPrecedesLock(BlockOf(dlFirst), dlKey))

\* An unlock of the key of fLock stands strictly between fLock and sLock.
UnlockBetween(fLock, sLock) ==
    \E u \in (fLock.i + 1)..(sLock.i - 1) :
        IsUnlockOf(BlockInstrs(BlockOf(fLock))[u], getLockPrefix(InstrAt(fLock).call))

\* An unlock of the key of fLock stands before fLock or after sLock.
UnlockOutside(fLock, sLock) ==
    \E u \in 1..Len(BlockInstrs(BlockOf(fLock))) :
        /\ u < fLock.i \/ u > sLock.i
        /\ IsUnlockOf(BlockInstrs(BlockOf(fLock))[u], getLockPrefix(InstrAt(fLock).call))

Survivors(n, key) ==
    {b \in 1..Len(prog[n.fn]) : pruneNoUnlock(BlockRef(n.fn, b), key)}

\* C12: for two lock calls of the same key and method name in the same
\* function but different blocks, _isDoubleLock is exactly the result of the
\* lock path search from the first lock's block to the second lock's block
\* under prune_no_unlock, whatever the two end blocks hold.
C12_CaseBIsPathSearch ==
    (/\ dlPc = "pair"
     /\ dlFirst.fn = dlSecond.fn
     /\ BlockOf(dlFirst) # BlockOf(dlSecond)
     /\ shortCallName(InstrAt(dlFirst).call) = shortCallName(InstrAt(dlSecond).call)) =>
        (dlRes <=> LockPathSearch(BlockOf(dlFirst), BlockOf(dlSecond),
                                  Survivors(BlockOf(dlFirst), dlKey)))

----------------------------------------------------------------------------
(* CheckDoubleLock.                                                        *)

\* collectLockInstrs: the lock calls of one function under the key, block by
\* block and instruction by instruction.
RECURSIVE CollectInBlock(_, _, _, _)
CollectInBlock(fn, b, i, key) ==
    IF i > Len(prog[fn][b].Instrs) THEN <<>>
    ELSE (IF IsLockOf(prog[fn][b].Instrs[i], key) THEN <<Ref(fn, b, i)>> ELSE <<>>)
         \o CollectInBlock(fn, b, i + 1, key)

RECURSIVE CollectFromBlock(_, _, _)
CollectFromBlock(fn, b, key) ==
    IF b > Len(prog[fn]) THEN <<>>
    ELSE CollectInBlock(fn, b, 1, key) \o CollectFromBlock(fn, b + 1, key)

collectLockInstrs(fn, key) == CollectFromBlock(fn, 1, key)

\* The first loop of CheckDoubleLock: the lists of the initial functions,
\* appended in the order of the initial functions.
RECURSIVE CollectAll(_, _)
CollectAll(order, key) ==
    IF order = <<>> THEN <<>>
    ELSE collectLockInstrs(Head(order), key) \o CollectAll(Tail(order), key)

\* j.Errorf(fInstr, "Acquiring the %s again at %v, %v", name, po, po1)
FirstMessage(fInstr, sInstr) ==
    [instr |-> fInstr,
     msg |-> <<"Acquiring the ", shortCallName(InstrAt(fInstr).call), " again at ",
               sInstr, ", ", fInstr>>]

\* j.Errorf(sInstr, "Acquiring the %s again at %v ", name, po)
SecondMessage(fInstr, sInstr) ==
    [instr |-> sInstr,
     msg |-> <<"Acquiring the ", shortCallName(InstrAt(sInstr).call), " again at ",
               fInstr, " ">>]

\* A variant that leaves out the test of the pair in reverse.
PairBodyForwardOnly(lockInstrs, i, t, lockKey) ==
    LET fInstr == lockInstrs[i]
        sInstr == lockInstrs[t]
    IN  IF _isDoubleLock(fInstr, sInstr, lockKey)
        THEN <<FirstMessage(fInstr, sInstr)>> ELSE <<>>

\* The body of the loop over t for one pair of list indices (from 1 here).
PairBody(lockInstrs, i, t, lockKey) ==
    LET fInstr == lockInstrs[i]
        sInstr == lockInstrs[t]
    IN  (IF _isDoubleLock(fInstr, sInstr, lockKey)
         THEN <<FirstMessage(fInstr, sInstr)>> ELSE <<>>)
        \o
        (IF fInstr # sInstr /\ _isDoubleLock(sInstr, fInstr, lockKey)
         THEN <<SecondMessage(fInstr, sInstr)>> ELSE <<>>)

\* The loops over i and over t >= i for one key.
RECURSIVE PairLoops(_, _, _, _)
PairLoops(lockInstrs, i, t, lockKey) ==
    IF i > Len(lockInstrs) THEN <<>>
    ELSE IF t > Len(lockInstrs) THEN PairLoops(lockInstrs, i + 1, i + 1, lockKey)
    ELSE PairBody(lockInstrs, i, t, lockKey) \o PairLoops(lockInstrs, i, t + 1, lockKey)

\* A variant that keeps the map of the previous run.
keptLockInstructions == lockInstructions

\* make(map[string][]ssa.Instruction): a fresh, empty map for each run.
newLockInstructions == [k \in LockKeys |-> <<>>]

\* The keys of the map: those with a collected lock.
KeysOf(m) == {k \in DOMAIN m : m[k] # <<>>}

MaxDiagInstrs == 2

\* f may call g; both are single blocks of at most n instructions.
DiagPrograms(n) ==
    {[f |-> <<Block(fi, <<>>)>>, g |-> <<Block(gi, <<>>)>>] :
        fi \in InstrLists({LockI(Txt.T0), UnlockI(Txt.T0), CallI("g")}, n),
        gi \in InstrLists({LockI(Txt.T0), LockI(Txt.T1), UnlockI(Txt.T0)}, n)}

DiagInit ==
    /\ prog \in DiagPrograms(MaxDiagInstrs)
    /\ funcOrder = <<"f", "g">>
    /\ dlPc = "idle"
    /\ dlFirst = NoRef
    /\ dlSecond = NoRef
    /\ dlKey = Txt.Empty
    /\ dlRes = FALSE
    /\ cdPc = "start"
    /\ lockInstructions = [k \in LockKeys |-> <<>>]
    /\ keysLeft = {}
    /\ diags = <<>>
    /\ run = 1
    /\ firstDiags = <<>>
    /\ firstOrder = funcOrder

\* Lines 1022-1036: collect the lock instructions of the initial functions.
Collect ==
    /\ cdPc = "start"
    /\ lockInstructions' = [k \in LockKeys |-> newLockInstructions[k] \o CollectAll(funcOrder, k)]
    /\ keysLeft' = KeysOf(lockInstructions')
    /\ cdPc' = "ranging"
    /\ UNCHANGED <<diags, run, firstDiags, firstOrder, lockVars>>
    /\ DiagFrame

\* Lines 1038-1063: one iteration of the range over the map, which produces
\* the keys in an order the Go runtime chooses, with all pairs of that key.
RangeKey ==
    /\ cdPc = "ranging"
    /\ \E lockKey \in keysLeft :
        /\ diags' = diags \o PairLoops(lockInstructions[lockKey], 1, 1, lockKey)
        /\ keysLeft' = keysLeft \ {lockKey}
    /\ UNCHANGED <<cdPc, lockInstructions, run, firstDiags, firstOrder, lockVars>>
    /\ DiagFrame

\* The range over the map is exhausted: CheckDoubleLock returns.
Finish ==
    /\ cdPc = "ranging"
    /\ keysLeft = {}
    /\ cdPc' = "done"
    /\ UNCHANGED <<lockInstructions, keysLeft, diags, run, firstDiags, firstOrder, lockVars>>
    /\ DiagFrame

\* The checker is run again on the same program, with the initial functions
\* in the same or in the opposite order.
RunAgain ==
    /\ cdPc = "done"
    /\ run = 1
    /\ run' = 2
    /\ firstDiags' = diags
    /\ diags' = <<>>
    /\ \E order \in {<<"f", "g">>, <<"g", "f">>} : funcOrder' = order
    /\ cdPc' = "start"
    /\ UNCHANGED <<lockInstructions, keysLeft, firstOrder, prog, dlPc, dlFirst, dlSecond, dlKey, dlRes>>
    /\ DiagFrame

DiagNext == Collect \/ RangeKey \/ Finish \/ RunAgain

----------------------------------------------------------------------------
(* Claims about CheckDoubleLock.                                           *)

Range(s) == {s[i] : i \in 1..Len(s)}

\* The lock fLock of f is followed in its block, with no unlock of the key
\* in between, by a call (not a go, not a defer) of g, and g's entry block
\* holds the lock sLock of the same key and method with no unlock of the key
\* before it.
CrossScenario(fLock, sLock, key) ==
    /\ fLock.fn = "f" /\ sLock.fn = "g"
    /\ IsLockOf(InstrAt(fLock), key) /\ IsLockOf(InstrAt(sLock), key)
    /\ shortCallName(InstrAt(fLock).call) = shortCallName(InstrAt(sLock).call)
    /\ \E c \in (fLock.i + 1)..Len(BlockInstrs(BlockOf(fLock))) :
        /\ BlockInstrs(BlockOf(fLock))[c].kind = "Call"
        /\ BlockInstrs(BlockOf(fLock))[c].target = "g"
        /\ \A u \in (fLock.i + 1)..(c - 1) : ~IsUnlockOf(BlockInstrs(BlockOf(fLock))[u], key)
    /\ sLock.b = 1
    /\ \A u \in 1..(sLock.i - 1) : ~IsUnlockOf(BlockInstrs(BlockOf(sLock))[u], key)

\* C3: when f locks k and then, with no unlock of k in between, calls g, and g
\* locks k by the same method with no unlock of k before, CheckDoubleLock
\* emits a diagnostic on f's lock that names the position of g's lock.
C3_CrossFunctionReported ==
    cdPc = "done" =>
        \A key \in LockKeys : \A fLock \in LockRefs(key), sLock \in LockRefs(key) :
            CrossScenario(fLock, sLock, key) =>
                \E d \in Range(diags) : d.instr = fLock /\ d.msg[4] = sLock

DiagKey(d) == getLockPrefix(InstrAt(d.instr).call)

DiagsOfKey(ds, key) == SelectSeq(ds, LAMBDA d : DiagKey(d) = key)

SecondRunSameOrder == cdPc = "done" /\ run = 2 /\ funcOrder = firstOrder
SecondRunOtherOrder == cdPc = "done" /\ run = 2 /\ funcOrder # firstOrder

\* C5 as stated: two runs of CheckDoubleLock on the same program emit the
\* same diagnostics in the same order.
C5_SameSequenceTwice ==
    SecondRunSameOrder => diags = firstDiags

\* C5, amended: two runs of CheckDoubleLock on the same program emit the same
\* set of diagnostics, as many of them, and the diagnostics of each key in
\* the same order; the order between the keys is left open.
C5_SameSetAndOrderPerKey ==
    SecondRunSameOrder =>
        /\ Range(diags) = Range(firstDiags)
        /\ Len(diags) = Len(firstDiags)
        /\ \A key \in LockKeys : DiagsOfKey(diags, key) = DiagsOfKey(firstDiags, key)

\* Both runs reported double locks on two keys, in different orders.
C5_Witness ==
    /\ SecondRunSameOrder
    /\ \E d1 \in Range(diags), d2 \in Range(diags) : DiagKey(d1) # DiagKey(d2)
    /\ diags # firstDiags

\* What a diagnostic reports apart from the wording: the instruction it is
\* attached to, the lock method and the position of the other lock.
DiagSite(d) == [instr |-> d.instr, name |-> d.msg[2], other |-> d.msg[4]]

----------------------------------------------------------------------------
(* applyStdlibKnowledge.  For the rewrite a function is a sequence of      *)
(* blocks [Instrs, Succs, Preds]; Succs and Preds hold block numbers.  An  *)
(* instruction that names another one (the tuple of an Extract, the        *)
(* condition of an If) holds the place of that instruction in Instrs.      *)

DebugRefI == [kind |-> "DebugRef"]
\* <-X where X is a call of the named function
UnOpI(callee) == [kind |-> "UnOp", op |-> "ARROW", x |-> callee]
ExtractI(tuple, index) == [kind |-> "Extract", tuple |-> tuple, index |-> index]
IfI(cond) == [kind |-> "If", cond |-> cond]
JumpI == [kind |-> "Jump"]
ReturnI == [kind |-> "Return"]

\* The places in block.Instrs of the instructions that are no DebugRef, in
\* order: the slice instrs of lines 213-219.
NonDebug(instrs) ==
    LET keep == {p \in 1..Len(instrs) : instrs[p].kind # "DebugRef"}
        Ord[n \in 0..Cardinality(keep)] ==
            IF n = 0 THEN <<>>
            ELSE LET rest == Ord[n - 1]
                     used == {rest[k] : k \in 1..Len(rest)}
                 IN  Append(rest, CHOOSE p \in keep \ used : \A q \in keep \ used : p <= q)
    IN  Ord[Cardinality(keep)]

\* Lines 221-241: does the idiom start at entry i of instrs?
IdiomAt(block, instrs, i) ==
    /\ block.Instrs[instrs[i]].kind = "UnOp"
    /\ block.Instrs[instrs[i]].op = "ARROW"
    /\ block.Instrs[instrs[i]].x = "time.Tick"
    /\ i + 2 <= Len(instrs)
    /\ block.Instrs[instrs[i + 1]].kind = "Extract"
    /\ block.Instrs[instrs[i + 1]].tuple = instrs[i]
    /\ block.Instrs[instrs[i + 1]].index = 1
    /\ block.Instrs[instrs[i + 2]].kind = "If"
    /\ block.Instrs[instrs[i + 2]].cond = instrs[i + 1]

\* The entries at which the loop of lines 221-247 rewrites the block.
Matches(block) ==
    IF Len(block.Instrs) < 3 \/ Len(block.Succs) # 2 THEN {}
    ELSE {i \in 1..Len(NonDebug(block.Instrs)) : IdiomAt(block, NonDebug(block.Instrs), i)}

\* BasicBlock.RemovePred: every occurrence of p leaves the list.
RemovePred(preds, p) == SelectSeq(preds, LAMBDA q : q # p)

\* A variant that leaves the predecessors of the dropped successor alone.
RewriteBlockKeepPreds(fn, b, i) ==
    LET block == fn[b]
        instrs == NonDebug(block.Instrs)
    IN  [fn EXCEPT ![b] = [block EXCEPT !.Instrs[instrs[i + 2]] = JumpI,
                                        !.Succs = SubSeq(block.Succs, 1, 1)]]

\* Lines 243-246 for block b of fn, which matches at entry i.
RewriteBlock(fn, b, i) ==
    LET block == fn[b]
        instrs == NonDebug(block.Instrs)
        succ == block.Succs[2]
        jumped == [block EXCEPT !.Instrs[instrs[i + 2]] = JumpI,
                                !.Succs = SubSeq(block.Succs, 1, 1)]
        fn1 == [fn EXCEPT ![b] = jumped]
    IN  [fn1 EXCEPT ![succ].Preds = RemovePred(fn1[succ].Preds, b)]

\* The loop over the blocks, from block b on.
RECURSIVE ApplyFrom(_, _)
ApplyFrom(fn, b) ==
    IF b > Len(fn) THEN fn
    ELSE IF Matches(fn[b]) = {} THEN ApplyFrom(fn, b + 1)
    ELSE ApplyFrom(RewriteBlock(fn, b, Min(Matches(fn[b]))), b + 1)

\* A variant of the loop that stops after the first block it rewrites.
RECURSIVE ApplyFirstFrom(_, _)
ApplyFirstFrom(fn, b) ==
    IF b > Len(fn) THEN fn
    ELSE IF Matches(fn[b]) = {} THEN ApplyFirstFrom(fn, b + 1)
    ELSE RewriteBlock(fn, b, Min(Matches(fn[b])))

applyStdlibKnowledgeFirstOnly(fn) ==
    IF Len(fn) = 0 THEN fn ELSE ApplyFirstFrom(fn, 1)

applyStdlibKnowledge(fn) ==
    IF Len(fn) = 0 THEN fn ELSE ApplyFrom(fn, 1)

----------------------------------------------------------------------------
(* The functions the rewrite is applied to: three blocks, the third one an *)
(* exit.  Block 1 and block 2 end in an If (two distinct successors) or in *)
(* a Jump (one successor), after a body without terminator.  An If with    *)
(* twice the same successor does not occur: the SSA builder turns it into  *)
(* a Jump.                                                                 *)

MaxBody == 3

\* The instruction at place p of a body, by its choice from the catalogue:
\* an Extract names the instruction one or two places before it.
BodyInstr(choice, p) ==
    CASE choice = "debug" -> DebugRefI
      [] choice = "tick" -> UnOpI("time.Tick")
      [] choice = "after" -> UnOpI("time.After")
      [] choice = "ok1" -> ExtractI(p - 1, 1)
      [] choice = "ok2" -> ExtractI(p - 2, 1)

Bodies(choices, n) ==
    {[p \in 1..Len(cs) |-> BodyInstr(cs[p], p)] : cs \in InstrLists(choices, n)}

\* The ways a block with a body of k instructions ends: its terminator (an
\* If on the instruction one or two places before it, or a Jump) and its
\* successors, other being the other block of the pair.
Endings(k, other) ==
    {[term |-> IfI(k), succs |-> <<other, 3>>],
     [term |-> IfI(k), succs |-> <<3, other>>],
     [term |-> IfI(k - 1), succs |-> <<other, 3>>],
     [term |-> JumpI, succs |-> <<other>>],
     [term |-> JumpI, succs |-> <<3>>]}

\* The first block: a body of at most n instructions and an ending.
FirstBlocks(n) ==
    UNION {{[Instrs |-> Append(body, e.term), Succs |-> e.succs] : e \in Endings(Len(body), 2)} :
            body \in Bodies({"debug", "tick", "after", "ok1", "ok2"}, n)}

\* The second block: the idiom with either successor order, two near misses
\* of it, and a plain jump.
SecondBlocks ==
    {[Instrs |-> <<UnOpI("time.Tick"), ExtractI(1, 1), IfI(2)>>, Succs |-> <<3, 1>>],
     [Instrs |-> <<UnOpI("time.Tick"), ExtractI(1, 1), IfI(2)>>, Succs |-> <<1, 3>>],
     [Instrs |-> <<UnOpI("time.Tick"), ExtractI(1, 0), IfI(2)>>, Succs |-> <<3, 1>>],
     [Instrs |-> <<UnOpI("time.After"), ExtractI(1, 1), IfI(2)>>, Succs |-> <<1, 3>>],
     [Instrs |-> <<JumpI>>, Succs |-> <<3>>]}

\* Preds, from the successor lists: block order, then successor order.
RECURSIVE PredsFrom(_, _, _)
PredsFrom(succs, target, b) ==
    IF b > Len(succs) THEN <<>>
    ELSE SelectSeq([k \in 1..Len(succs[b]) |-> IF succs[b][k] = target THEN b ELSE 0],
                   LAMBDA x : x # 0)
         \o PredsFrom(succs, target, b + 1)

MakeFunction(block1, block2) ==
    LET succs == <<block1.Succs, block2.Succs, <<>> >>
        instrs == <<block1.Instrs, block2.Instrs, <<ReturnI>> >>
    IN  [b \in 1..3 |-> [Instrs |-> instrs[b], Succs |-> succs[b],
                         Preds |-> PredsFrom(succs, b, 1)]]

RewriteFunctions(n) ==
    {MakeFunction(block1, block2) : block1 \in FirstBlocks(n), block2 \in SecondBlocks}

NoFunction == <<>>

RewriteInit ==
    /\ rwFn \in RewriteFunctions(MaxBody)
    /\ rwOrig = rwFn
    /\ rwOnce = NoFunction
    /\ rwCount = 0

\* applyStdlibKnowledge(fn), applied to the function once more.
ApplyStdlib ==
    /\ rwCount < 2
    /\ rwFn # NoFunction
    /\ rwFn' = applyStdlibKnowledge(rwFn)
    /\ rwOnce' = IF rwCount = 0 THEN rwFn' ELSE rwOnce
    /\ rwCount' = rwCount + 1
    /\ UNCHANGED rwOrig
    /\ RewriteFrame

RewriteNext == ApplyStdlib

----------------------------------------------------------------------------
(* Claims about applyStdlibKnowledge.                                      *)

\* C4: applyStdlibKnowledge is idempotent: applied twice, it leaves every
\* block's instructions, successors and predecessors as they are after one
\* application.
C4_RewriteIdempotent ==
    rwCount = 2 => rwFn = rwOnce

\* The rewrite was applied twice to a function it changed.
C4_Witness ==
    rwCount = 2 /\ rwOnce # rwOrig

\* The blocks of the function as given that the rewrite applies to.
Rewritten == {b \in 1..Len(rwOrig) : Matches(rwOrig[b]) # {}}

\* The rewritten blocks that drop b: those whose second successor it was.
Droppers(b) == {a \in Rewritten : rwOrig[a].Succs[2] = b}

\* What the rewrite leaves of a block it applies to: the If has become a
\* Jump, the other instructions are as before, the first ("ok = true")
\* successor is the only one, the dropped successor does not list the block
\* as predecessor any more and the kept one still does.
RewrittenAsClaimed(b) ==
    /\ Len(rwOnce[b].Instrs) = Len(rwOrig[b].Instrs)
    /\ \A p \in 1..Len(rwOrig[b].Instrs) :
          rwOnce[b].Instrs[p] = IF p = Len(rwOrig[b].Instrs) THEN JumpI
                                ELSE rwOrig[b].Instrs[p]
    /\ rwOrig[b].Instrs[Len(rwOrig[b].Instrs)].kind = "If"
    /\ rwOnce[b].Succs = <<rwOrig[b].Succs[1]>>
    /\ \A k \in 1..Len(rwOnce[rwOrig[b].Succs[2]].Preds) :
          rwOnce[rwOrig[b].Succs[2]].Preds[k] # b
    /\ \E k \in 1..Len(rwOnce[rwOrig[b].Succs[1]].Preds) :
          rwOnce[rwOrig[b].Succs[1]].Preds[k] = b

\* C13 as stated: a rewritten block is left as described, and a block that
\* does not match the idiom keeps its instructions, successors and
\* predecessors.
C13_OthersKeepPredecessors ==
    rwCount >= 1 =>
        \A b \in 1..Len(rwOrig) :
            IF b \in Rewritten THEN RewrittenAsClaimed(b)
            ELSE rwOnce[b] = rwOrig[b]

\* C13, amended: a rewritten block is left as described; a block that does
\* not match the idiom keeps its instructions and successors; and the
\* predecessors of every block are those it had, in order, less the
\* rewritten blocks that dropped it.
C13_OthersLoseDroppedEdgesOnly ==
    rwCount >= 1 =>
        \A b \in 1..Len(rwOrig) :
            /\ b \in Rewritten => RewrittenAsClaimed(b)
            /\ b \notin Rewritten =>
                  /\ rwOnce[b].Instrs = rwOrig[b].Instrs
                  /\ rwOnce[b].Succs = rwOrig[b].Succs
            /\ rwOnce[b].Preds = SelectSeq(rwOrig[b].Preds, LAMBDA a : a \notin Droppers(b))

\* A block was rewritten and dropped a successor that does not match the
\* idiom itself.
C13_Witness ==
    /\ rwCount >= 1
    /\ \E b \in Rewritten : rwOrig[b].Succs[2] \notin Rewritten

----------------------------------------------------------------------------
(* Checker.Init.  The caller adds two to a WaitGroup, starts T1 and T2 and *)
(* waits; T1 and T2 run in any interleaving, one statement at a time.      *)

MaxFuncs == 2
MaxDecls == 2

NilValue == "nil"

\* A map value: the nil map, or a made map with its keys.
NilMap == [isNil |-> TRUE, keys |-> {}]
MakeMap == [isNil |-> FALSE, keys |-> {}]

\* wg.Add(2)
wgAddOne(counter) == counter + 1

wgAdd(counter) == counter + 2

\* wg.Done()
wgDone(counter) == counter - 1

\* wg.Wait() returns when the counter is zero.
wgWaitReturns(counter) == counter = 0

\* prog.AllFunctions as the SSA builder leaves it: nothing rewritten yet.
Function(hasBlocks) ==
    [hasBlocks |-> hasBlocks, rewritten |-> FALSE, optimized |-> FALSE]

FunctionLists ==
    UNION {[1..n -> {Function(TRUE), Function(FALSE)}] : n \in 0..MaxFuncs}

\* The declarations findDeprecated visits: each has a doc comment whose
\* last paragraph starts with "Deprecated: ", or not.
DeclLists ==
    UNION {[1..n -> [deprecated : BOOLEAN]] : n \in 0..MaxDecls}

NoSnapshot ==
    [ran |-> FALSE, funcDescs |-> NilValue, allFunctions |-> <<>>, deprecatedObjs |-> NilMap]

InitStart ==
    /\ mainPc = "add"
    /\ t1Pc = "unborn"
    /\ t2Pc = "unborn"
    /\ wgCounter = 0
    /\ funcDescs = NilValue
    /\ allFunctions \in FunctionLists
    /\ fnNext = 1
    /\ decls \in DeclLists
    /\ declNext = 1
    /\ deprecatedObjs = NilMap
    /\ checkerSaw = NoSnapshot

\* wg.Add(2)
MainAdd ==
    /\ mainPc = "add"
    /\ wgCounter' = wgAdd(wgCounter)
    /\ mainPc' = "go1"
    /\ UNCHANGED <<t1Pc, t2Pc, funcDescs, allFunctions, fnNext, decls, declNext,
                   deprecatedObjs, checkerSaw>>
    /\ InitFrame

\* go func() { ... }(): T1 exists from now on
MainGoT1 ==
    /\ mainPc = "go1"
    /\ t1Pc' = "descs"
    /\ mainPc' = "go2"
    /\ UNCHANGED <<t2Pc, wgCounter, funcDescs, allFunctions, fnNext, decls, declNext,
                   deprecatedObjs, checkerSaw>>
    /\ InitFrame

\* go func() { ... }(): T2 exists from now on
MainGoT2 ==
    /\ mainPc = "go2"
    /\ t2Pc' = "map"
    /\ mainPc' = "wait"
    /\ UNCHANGED <<t1Pc, wgCounter, funcDescs, allFunctions, fnNext, decls, declNext,
                   deprecatedObjs, checkerSaw>>
    /\ InitFrame

\* wg.Wait(), and the return of Init
MainWait ==
    /\ mainPc = "wait"
    /\ wgWaitReturns(wgCounter)
    /\ mainPc' = "returned"
    /\ UNCHANGED <<t1Pc, t2Pc, wgCounter, funcDescs, allFunctions, fnNext, decls,
                   declNext, deprecatedObjs, checkerSaw>>
    /\ InitFrame

\* c.funcDescs = functions.NewDescriptions(prog.SSA)
T1Descriptions ==
    /\ t1Pc = "descs"
    /\ funcDescs' = "set"
    /\ t1Pc' = "loop"
    /\ UNCHANGED <<mainPc, t2Pc, wgCounter, allFunctions, fnNext, decls, declNext,
                   deprecatedObjs, checkerSaw>>
    /\ InitFrame

\* One turn of the loop up to applyStdlibKnowledge(fn); a function without
\* blocks is passed over.
T1Rewrite ==
    /\ t1Pc = "loop"
    /\ fnNext <= Len(allFunctions)
    /\ IF allFunctions[fnNext].hasBlocks
       THEN /\ allFunctions' = [allFunctions EXCEPT ![fnNext].rewritten = TRUE]
            /\ t1Pc' = "optimize"
            /\ UNCHANGED fnNext
       ELSE /\ fnNext' = fnNext + 1
            /\ UNCHANGED <<allFunctions, t1Pc>>
    /\ UNCHANGED <<mainPc, t2Pc, wgCounter, funcDescs, decls, declNext,
                   deprecatedObjs, checkerSaw>>
    /\ InitFrame

\* ssa.OptimizeBlocks(fn), and on to the next function
T1Optimize ==
    /\ t1Pc = "optimize"
    /\ allFunctions' = [allFunctions EXCEPT ![fnNext].optimized = TRUE]
    /\ fnNext' = fnNext + 1
    /\ t1Pc' = "loop"
    /\ UNCHANGED <<mainPc, t2Pc, wgCounter, funcDescs, decls, declNext,
                   deprecatedObjs, checkerSaw>>
    /\ InitFrame

\* wg.Done() of T1, after the loop
T1Done ==
    /\ t1Pc = "loop"
    /\ fnNext > Len(allFunctions)
    /\ wgCounter' = wgDone(wgCounter)
    /\ t1Pc' = "exited"
    /\ UNCHANGED <<mainPc, t2Pc, funcDescs, allFunctions, fnNext, decls, declNext,
                   deprecatedObjs, checkerSaw>>
    /\ InitFrame

\* c.deprecatedObjs = map[types.Object]string{}
T2Map ==
    /\ t2Pc = "map"
    /\ deprecatedObjs' = MakeMap
    /\ t2Pc' = "find"
    /\ UNCHANGED <<mainPc, t1Pc, wgCounter, funcDescs, allFunctions, fnNext, decls,
                   declNext, checkerSaw>>
    /\ InitFrame

\* c.findDeprecated(prog), one declaration (one call of doDocs) at a time
T2FindDeprecated ==
    /\ t2Pc = "find"
    /\ declNext <= Len(decls)
    /\ deprecatedObjs' = IF decls[declNext].deprecated
                         THEN [deprecatedObjs EXCEPT !.keys = @ \cup {declNext}]
                         ELSE deprecatedObjs
    /\ declNext' = declNext + 1
    /\ UNCHANGED <<mainPc, t1Pc, t2Pc, wgCounter, funcDescs, allFunctions, fnNext,
                   decls, checkerSaw>>
    /\ InitFrame

\* wg.Done() of T2, after findDeprecated
T2Done ==
    /\ t2Pc = "find"
    /\ declNext > Len(decls)
    /\ wgCounter' = wgDone(wgCounter)
    /\ t2Pc' = "exited"
    /\ UNCHANGED <<mainPc, t1Pc, funcDescs, allFunctions, fnNext, decls, declNext,
                   deprecatedObjs, checkerSaw>>
    /\ InitFrame

\* A checker runs: it can only after Init has returned.  What it finds of
\* the state Init prepares is recorded.
RunChecker ==
    /\ mainPc = "returned"
    /\ ~checkerSaw.ran
    /\ checkerSaw' = [ran |-> TRUE, funcDescs |-> funcDescs,
                      allFunctions |-> allFunctions, deprecatedObjs |-> deprecatedObjs]
    /\ UNCHANGED <<mainPc, t1Pc, t2Pc, wgCounter, funcDescs, allFunctions, fnNext,
                   decls, declNext, deprecatedObjs>>
    /\ InitFrame

InitNext ==
    \/ MainAdd
    \/ MainGoT1
    \/ MainGoT2
    \/ MainWait
    \/ T1Descriptions
    \/ T1Rewrite
    \/ T1Optimize
    \/ T1Done
    \/ T2Map
    \/ T2FindDeprecated
    \/ T2Done
    \/ RunChecker

----------------------------------------------------------------------------
(* Claims about Checker.Init.                                              *)

\* What Init is to leave behind: the descriptions, every function with
\* blocks rewritten, every deprecated declaration in the map.
Prepared(descs, functions, objs) ==
    /\ descs = "set"
    /\ \A i \in 1..Len(functions) : functions[i].hasBlocks => functions[i].rewritten
    /\ ~objs.isNil
    /\ objs.keys = {i \in 1..Len(decls) : decls[i].deprecated}

\* C1: Init returns only after T1 and T2 have finished: when it has returned,
\* and whenever a checker runs, funcDescs is set, the rewrite has been
\* applied to every function with blocks and deprecatedObjs holds every
\* deprecated declaration, in every interleaving of T1 and T2.
C1_InitJoinsBothTasks ==
    /\ mainPc = "returned" =>
          /\ t1Pc = "exited"
          /\ t2Pc = "exited"
          /\ Prepared(funcDescs, allFunctions, deprecatedObjs)
    /\ checkerSaw.ran =>
          Prepared(checkerSaw.funcDescs, checkerSaw.allFunctions, checkerSaw.deprecatedObjs)

\* Init has returned and a checker has run, on a program with a function to
\* rewrite and a deprecated declaration to index.
C1_Witness ==
    /\ mainPc = "returned"
    /\ checkerSaw.ran
    /\ \E i \in 1..Len(allFunctions) : allFunctions[i].rewritten
    /\ deprecatedObjs.keys # {}

----------------------------------------------------------------------------
(* The AST checkers.  A file is [name, generated, body]; body is the list  *)
(* of statements of its one function.  A statement is a call statement     *)
(* x.name(...) with what the type checker knows of the callee, or a go     *)
(* statement on a function literal with a body of its own.  A position is  *)
(* the path of statement numbers from the file's body to the node.         *)

CallStmt(x, name, fullName, params, results) ==
    [kind |-> "ExprStmt", x |-> x, name |-> name, fullName |-> fullName,
     params |-> params, results |-> results]

GoStmt(body) == [kind |-> "GoStmt", funcLit |-> TRUE, body |-> body]

MuLock == CallStmt("mu", "Lock", "(*sync.Mutex).Lock", 0, 0)
MuUnlock == CallStmt("mu", "Unlock", "(*sync.Mutex).Unlock", 0, 0)
OtherUnlock == CallStmt("other", "Unlock", "(*sync.Mutex).Unlock", 0, 0)
WgAddCall == CallStmt("wg", "Add", "(*sync.WaitGroup).Add", 1, 0)

\* go func() { wg.Add(1); mu.Lock(); mu.Unlock() }()
GoAddFirst == GoStmt(<<WgAddCall, MuLock, MuUnlock>>)

\* go func() { mu.Lock(); other.Unlock(); wg.Add(1) }()
GoAddLater == GoStmt(<<MuLock, OtherUnlock, WgAddCall>>)

\* IsGenerated(f): the file carries the "Code generated ... DO NOT EDIT." line.
IsGenerated(f) == f.generated

\* c.filterGenerated(files)
filterGenerated(c, fs) ==
    IF c.CheckGenerated THEN fs
    ELSE SelectSeq(fs, LAMBDA f : ~IsGenerated(f))

\* Render of a call statement, and of the receiver of a call.
Render(s) == <<s.x, ".", s.name, "()">>
RenderExpr(x) == <<x>>

\* j.Errorf(n, ...): one diagnostic, at the node n of the file.
Errorf(name, path, message) == [file |-> name, pos |-> path, message |-> message]

\* The callback fn of CheckWaitgroupAdd at the statement s.
WaitgroupAddAt(name, s, path) ==
    IF /\ s.kind = "GoStmt"
       /\ s.funcLit
       /\ Len(s.body) # 0
       /\ s.body[1].kind = "ExprStmt"
       /\ s.body[1].fullName = "(*sync.WaitGroup).Add"
    THEN <<Errorf(name, path \o <<1>>,
                  <<"should call ", Render(s.body[1]),
                    " before starting the goroutine to avoid a race">>)>>
    ELSE <<>>

\* ast.Inspect with that callback over the statements of list from i on:
\* a node before its children, the children in order.
RECURSIVE InspectWaitgroupAdd(_, _, _, _)
InspectWaitgroupAdd(name, list, path, i) ==
    IF i > Len(list) THEN <<>>
    ELSE WaitgroupAddAt(name, list[i], path \o <<i>>)
         \o (IF list[i].kind = "GoStmt"
             THEN InspectWaitgroupAdd(name, list[i].body, path \o <<i>>, 1)
             ELSE <<>>)
         \o InspectWaitgroupAdd(name, list, path, i + 1)

\* The loop over j.Program.Files, from file k on.
RECURSIVE WaitgroupAddFrom(_, _)
WaitgroupAddFrom(fs, k) ==
    IF k > Len(fs) THEN <<>>
    ELSE InspectWaitgroupAdd(fs[k].name, fs[k].body, <<>>, 1) \o WaitgroupAddFrom(fs, k + 1)

CheckWaitgroupAdd(c, j) == WaitgroupAddFrom(j.Files, 1)

mutexParams(s) ==
    IF s.kind = "ExprStmt" /\ s.params = 0 /\ s.results = 0
    THEN [x |-> s.x, funcName |-> s.name, ok |-> TRUE]
    ELSE [x |-> "", funcName |-> "", ok |-> FALSE]

\* The loop over block.List[:len(block.List)-1], from i on.
RECURSIVE EmptySectionsFrom(_, _, _, _)
EmptySectionsFrom(name, list, path, i) ==
    IF i > Len(list) - 1 THEN <<>>
    ELSE LET p1 == mutexParams(list[i])
             p2 == mutexParams(list[i + 1])
             hit == /\ p1.ok
                    /\ p2.ok
                    /\ RenderExpr(p1.x) = RenderExpr(p2.x)
                    /\ \/ p1.funcName = "Lock" /\ p2.funcName = "Unlock"
                       \/ p1.funcName = "RLock" /\ p2.funcName = "RUnlock"
         IN  (IF hit THEN <<Errorf(name, path \o <<i + 1>>, <<"empty critical section">>)>>
              ELSE <<>>)
             \o EmptySectionsFrom(name, list, path, i + 1)

\* The callback fn of CheckEmptyCriticalSection at the block with the
\* statements list.
EmptySectionsAt(name, list, path) ==
    IF Len(list) < 2 THEN <<>> ELSE EmptySectionsFrom(name, list, path, 1)

\* ast.Inspect below a block: the blocks of the statements from i on.
RECURSIVE InspectBlock(_, _, _)
RECURSIVE InspectChildren(_, _, _, _)
InspectBlock(name, list, path) ==
    EmptySectionsAt(name, list, path) \o InspectChildren(name, list, path, 1)

InspectChildren(name, list, path, i) ==
    IF i > Len(list) THEN <<>>
    ELSE (IF list[i].kind = "GoStmt"
          THEN InspectBlock(name, list[i].body, path \o <<i>>)
          ELSE <<>>)
         \o InspectChildren(name, list, path, i + 1)

RECURSIVE EmptySectionsOfFiles(_, _)
EmptySectionsOfFiles(fs, k) ==
    IF k > Len(fs) THEN <<>>
    ELSE InspectBlock(fs[k].name, fs[k].body, <<>>) \o EmptySectionsOfFiles(fs, k + 1)

CheckEmptyCriticalSection(c, j) == EmptySectionsOfFiles(j.Files, 1)

----------------------------------------------------------------------------
(* The programs the AST checkers run on: two files, each generated or not, *)
(* each with up to MaxStmts statements.                                    *)

MaxStmts == 2

FileOf(name, n) ==
    [name : {name}, generated : BOOLEAN,
     body : InstrLists({MuLock, MuUnlock, GoAddFirst, GoAddLater}, n)]

AstInit ==
    /\ CheckGenerated \in BOOLEAN
    /\ \E a \in FileOf("a.go", MaxStmts), b \in FileOf("b.go", MaxStmts) : files = <<a, b>>
    /\ wgAddRan = FALSE
    /\ wgAddDiags = <<>>
    /\ emptyCsRan = FALSE
    /\ emptyCsDiags = <<>>

\* The checker and the job the two checks are given.
TheChecker == [CheckGenerated |-> CheckGenerated]
TheJob == [Files |-> files]

RunCheckWaitgroupAdd ==
    /\ ~wgAddRan
    /\ wgAddDiags' = CheckWaitgroupAdd(TheChecker, TheJob)
    /\ wgAddRan' = TRUE
    /\ UNCHANGED <<CheckGenerated, files, emptyCsRan, emptyCsDiags>>
    /\ AstFrame

RunCheckEmptyCriticalSection ==
    /\ ~emptyCsRan
    /\ emptyCsDiags' = CheckEmptyCriticalSection(TheChecker, TheJob)
    /\ emptyCsRan' = TRUE
    /\ UNCHANGED <<CheckGenerated, files, wgAddRan, wgAddDiags>>
    /\ AstFrame

AstNext ==
    \/ RunCheckWaitgroupAdd
    \/ RunCheckEmptyCriticalSection

----------------------------------------------------------------------------
(* Claims about the AST checkers.                                          *)

GeneratedNames == {files[k].name : k \in {k \in 1..Len(files) : IsGenerated(files[k])}}

\* The diagnostics of ds outside the generated files.
DropGenerated(ds) == SelectSeq(ds, LAMBDA d : d.file \notin GeneratedNames)

WithGenerated == [TheChecker EXCEPT !.CheckGenerated = TRUE]

\* C9: with CheckGenerated false, CheckWaitgroupAdd and
\* CheckEmptyCriticalSection emit no diagnostic in a generated file, and
\* their output is the output with CheckGenerated true less the diagnostics
\* in generated files.
C9_GeneratedFilesFiltered ==
    ~CheckGenerated =>
        /\ wgAddRan =>
              /\ \A k \in 1..Len(wgAddDiags) : wgAddDiags[k].file \notin GeneratedNames
              /\ wgAddDiags = DropGenerated(CheckWaitgroupAdd(WithGenerated, TheJob))
        /\ emptyCsRan =>
              /\ \A k \in 1..Len(emptyCsDiags) : emptyCsDiags[k].file \notin GeneratedNames
              /\ emptyCsDiags = DropGenerated(CheckEmptyCriticalSection(WithGenerated, TheJob))

(***************************************************************************)
(* CheckConcurrentTesting.  A function of ssaProg is a sequence of blocks, *)
(* a block a sequence of instructions.  An instruction carries its kind    *)
(* (Go, Call or another instruction), for a Go the kind of the called      *)
(* value, the program function it calls ("none" when it calls none), and   *)
(* for a method call whether it is an interface invoke, the receiver type  *)
(* of the static callee and the method name.                               *)
(***************************************************************************)
MaxTestInstrs == 2

SsaInstr(kind, value, target, invoke, recv, name) ==
    [kind |-> kind, value |-> value, target |-> target,
     invoke |-> invoke, recv |-> recv, name |-> name]

\* go fn() (value "Function") and go func(){...}() (value "MakeClosure")
GoOn(value, fn) == SsaInstr("Go", value, fn, FALSE, "none", "none")
\* a static call of a program function
StaticCall(fn) == SsaInstr("Call", "Function", fn, FALSE, "none", "none")
\* a static call of a method with the given receiver type
MethodCall(recv, name) == SsaInstr("Call", "Function", "none", FALSE, recv, name)
\* a call of a method through an interface
InvokeCall(name) == SsaInstr("Call", "none", "none", TRUE, "none", name)

FatalNames == {"FailNow", "Fatal", "Fatalf", "SkipNow", "Skip", "Skipf"}

\* The concatenation of a sequence of sequences.
RECURSIVE Concat(_)
Concat(ss) == IF Len(ss) = 0 THEN <<>> ELSE Head(ss) \o Concat(Tail(ss))

\* The test of the inner loop: a static call of one of the six methods
\* on a *testing.common receiver.
IsGoroutineFatal(ins) ==
    /\ ins.kind = "Call"
    /\ ~ins.invoke
    /\ ins.value = "Function"
    /\ ins.recv # "none"
    /\ ins.recv = "*testing.common"
    /\ ins.name \in FatalNames

\* The diagnostics of one go statement: one for each matching call in the
\* blocks of the function it starts.
GoDiags(p, gostmt, ins) ==
    IF ins.kind # "Go" THEN <<>>
    ELSE IF ins.value \notin {"Function", "MakeClosure"} THEN <<>>
    ELSE IF ins.target \notin DOMAIN p THEN <<>>
    ELSE LET body == SelectSeq(Concat(p[ins.target]), IsGoroutineFatal)
         IN [k \in 1..Len(body) |->
                [instr |-> gostmt,
                 msg |-> <<"the goroutine calls T.", body[k].name,
                           ", which must be called in the same goroutine as the test">>]]

\* The loops over the initial functions, their blocks and their instructions.
CheckConcurrentTesting(p, InitialFunctions) ==
    Concat([k \in 1..Len(InitialFunctions) |->
        LET fn == InitialFunctions[k]
        IN  Concat([b \in 1..Len(p[fn]) |->
                Concat([i \in 1..Len(p[fn][b]) |-> GoDiags(p, <<fn, b, i>>, p[fn][b][i])])])])

\* Inputs: a test function f that starts goroutines on g and h, a goroutine
\* body g that may call h, and a helper h.
SeqsUpTo(S, n) == UNION {[1..k -> S] : k \in 0..n}

TestPrograms(n) ==
    LET TestInstrs ==
            {GoOn("Function", "g"), GoOn("MakeClosure", "g"), GoOn("Function", "h"),
             StaticCall("g")}
        BodyInstrs ==
            {MethodCall("*testing.common", "Fatal"), MethodCall("*testing.common", "Log"),
             MethodCall("*p.T", "Fatal"), InvokeCall("Fatal"), StaticCall("h")}
        HelperBodies ==
            {<<>>, <<<<MethodCall("*testing.common", "Skipf")>>>>,
             <<<<MethodCall("*testing.common", "Log")>>>>}
    IN  {[fn \in {"f", "g", "h"} |->
            CASE fn = "f" -> <<t>> [] fn = "g" -> <<g>> [] OTHER -> h] :
            t \in SeqsUpTo(TestInstrs, n), g \in SeqsUpTo(BodyInstrs, n), h \in HelperBodies}

TestingInit ==
    /\ ssaProg \in TestPrograms(MaxTestInstrs)
    /\ ssaRan = "idle"
    /\ ssaDiags = <<>>

RunCheckConcurrentTesting ==
    /\ ssaRan = "idle"
    /\ ssaDiags' = CheckConcurrentTesting(ssaProg, <<"f", "g", "h">>)
    /\ ssaRan' = "CheckConcurrentTesting"
    /\ UNCHANGED ssaProg
    /\ SsaFrame

TestingNext == RunCheckConcurrentTesting

\* ---- claims ----
SsaRefs ==
    {<<fn, b, i>> : fn \in DOMAIN ssaProg, b \in 1..3, i \in 1..(MaxTestInstrs + 2)}
GoRefs ==
    {r \in SsaRefs :
        /\ r[2] <= Len(ssaProg[r[1]])
        /\ r[3] <= Len(ssaProg[r[1]][r[2]])
        /\ ssaProg[r[1]][r[2]][r[3]].kind = "Go"}
SsaAt(r) == ssaProg[r[1]][r[2]][r[3]]
Reported(r) == \E k \in 1..Len(ssaDiags) : ssaDiags[k].instr = r

\* the functions reached from fn through static calls, fn included
RECURSIVE ReachedFrom(_, _)
ReachedFrom(S, n) ==
    IF n = 0 THEN S
    ELSE ReachedFrom(S \cup {ins.target : ins \in
             {x \in UNION {{ssaProg[fn][b][i] : i \in 1..Len(ssaProg[fn][b])} :
                               <<fn, b>> \in {y \in S \X (1..3) : y[2] <= Len(ssaProg[y[1]])}} :
                 x.kind = "Call" /\ x.target \in DOMAIN ssaProg}}, n - 1)
\* fn holds a static call of one of the six methods on *testing.common
ContainsFatal(fn) ==
    \E b \in 1..Len(ssaProg[fn]) : \E i \in 1..Len(ssaProg[fn][b]) :
        \E name \in {"FailNow", "Fatal", "Fatalf", "SkipNow", "Skip", "Skipf"} :
            ssaProg[fn][b][i] = MethodCall("*testing.common", name)

\* C14 (as stated): CheckConcurrentTesting reports every go instruction
\* whose target function holds, in its own body or in the body of a function
\* it reaches through static calls, a static call of FailNow, Fatal, Fatalf,
\* SkipNow, Skip or Skipf on a *testing.common receiver, and reports no go
\* instruction whose target reaches no such call.
C14_ReportsTransitiveFatal ==
    ssaRan = "CheckConcurrentTesting" =>
        \A r \in GoRefs :
            Reported(r) <=> \E fn \in ReachedFrom({SsaAt(r).target}, 3) : ContainsFatal(fn)

\* What the code does instead: the go instructions reported are exactly
\* those whose target function holds such a call in its own body; the
\* bodies of the functions the target calls are not searched.
C14_ReportsFatalInOwnBody ==
    ssaRan = "CheckConcurrentTesting" =>
        \A r \in GoRefs : Reported(r) <=> ContainsFatal(SsaAt(r).target)

(***************************************************************************)
(* CheckDeferLock.  An instruction is a Call or a Defer with its           *)
(* CallCommon, or a DebugRef.                                              *)
(***************************************************************************)
MaxDeferInstrs == 3

StaticOn(full, args) ==
    [invoke |-> FALSE, value |-> full, fullName |-> full, method |-> Txt.Empty, args |-> args]
InvokeOn(v, method) ==
    [invoke |-> TRUE, value |-> v, fullName |-> Txt.Empty, method |-> method, args |-> <<>>]

\* an instruction of the given kind: "Call", "Defer", or "DebugRef"
InstrOf(kind, c) == [kind |-> kind, call |-> c]

\* lintdsl.FilterDebug, as the positions of the instructions that are kept
FilterDebug(instrs) ==
    SelectSeq([i \in 1..Len(instrs) |-> i], LAMBDA i : instrs[i].kind # "DebugRef")

\* What indexing Args[0] of a call without arguments does.
IndexPanic == [instr |-> <<>>, msg |-> <<"panic: index out of range">>]

\* One iteration of the loop over instrs[:len(instrs)-1]: the diagnostics
\* (or the panic) of position k of the filtered list.
DeferLockAt(p, fn, b, kept, k) ==
    LET ins == p[fn][b][kept[k]]
        nins == p[fn][b][kept[k + 1]]
    IN  IF ins.kind # "Call" THEN <<>>
        ELSE IF ~isCallToLock(ins.call) THEN <<>>
        ELSE IF nins.kind # "Defer" THEN <<>>
        ELSE IF ~isCallToLock(nins.call) THEN <<>>
        ELSE IF Len(ins.call.args) = 0 \/ Len(nins.call.args) = 0 THEN <<IndexPanic>>
        ELSE IF ins.call.args[1] # nins.call.args[1] THEN <<>>
        ELSE LET name == shortCallName(ins.call)
                 alt == IF name = Txt.NameLock THEN <<"Unlock">>
                        ELSE IF name = Txt.NameRLock THEN <<"RUnlock">>
                        ELSE <<"">>
             IN  <<[instr |-> <<fn, b, kept[k + 1]>>,
                    msg |-> <<"deferring ", name,
                              " right after having locked already; did you mean to defer ",
                              alt, "?">>]>>

\* The loops over the initial functions, their blocks, and the positions
\* 1..len-1 of the filtered list of a block with two instructions or more.
CheckDeferLock(p, InitialFunctions) ==
    Concat([k \in 1..Len(InitialFunctions) |->
        LET fn == InitialFunctions[k]
        IN  Concat([b \in 1..Len(p[fn]) |->
                LET instrs == FilterDebug(p[fn][b])
                IN  IF Len(instrs) < 2 THEN <<>>
                    ELSE Concat([i \in 1..(Len(instrs) - 1) |->
                                    DeferLockAt(p, fn, b, instrs, i)])])])

\* The diagnostics emitted before the first panic, if there is one.
BeforePanic(ds) ==
    IF \E k \in 1..Len(ds) : ds[k] = IndexPanic
    THEN SubSeq(ds, 1, (CHOOSE k \in 1..Len(ds) :
                            ds[k] = IndexPanic /\ \A m \in 1..(k - 1) : ds[m] # IndexPanic) - 1)
    ELSE ds

\* Inputs: one function of two blocks; the first block holds the whole of
\* a list of instructions or its first instruction only, the second the rest.
DeferPrograms(n) ==
    LET DeferInstrs ==
            {InstrOf("Call", StaticOn(Lit.RWMutexLock, <<Txt.T0>>)),
             InstrOf("Defer", StaticOn(Lit.RWMutexLock, <<Txt.T0>>)),
             InstrOf("Defer", StaticOn(Lit.RWMutexLock, <<Txt.T1>>)),
             InstrOf("Defer", StaticOn(Lit.RWMutexRLock, <<Txt.T0>>)),
             InstrOf("Defer", StaticOn(Lit.RWMutexUnLock, <<Txt.T0>>)),
             InstrOf("DebugRef", NoCall),
             InstrOf("Call", InvokeOn(Txt.T0, Txt.NameLock)),
             InstrOf("Defer", InvokeOn(Txt.T0, Txt.NameLock))}
        TwoBlocks(s, split) == <<SubSeq(s, 1, split), SubSeq(s, split + 1, Len(s))>>
    IN  UNION {{[fn \in {"f"} |-> TwoBlocks(s, Len(s))],
                [fn \in {"f"} |-> TwoBlocks(s, IF Len(s) = 0 THEN 0 ELSE 1)]} :
                   s \in SeqsUpTo(DeferInstrs, n)}

DeferInit ==
    /\ ssaProg \in DeferPrograms(MaxDeferInstrs)
    /\ ssaRan = "idle"
    /\ ssaDiags = <<>>

RunCheckDeferLock ==
    /\ ssaRan = "idle"
    /\ LET ds == CheckDeferLock(ssaProg, <<"f">>)
       IN  /\ ssaDiags' = BeforePanic(ds)
           /\ ssaRan' = IF BeforePanic(ds) = ds THEN "CheckDeferLock" ELSE "panic"
    /\ UNCHANGED ssaProg
    /\ SsaFrame

DeferNext == RunCheckDeferLock

\* ---- claims ----
DeferRefs ==
    {r \in {<<fn, b, i>> : fn \in DOMAIN ssaProg, b \in 1..2, i \in 1..(MaxDeferInstrs + 1)} :
        /\ r[3] <= Len(ssaProg[r[1]][r[2]])
        /\ ssaProg[r[1]][r[2]][r[3]].kind = "Defer"}

\* the position of the last instruction before i that is not a DebugRef, 0 for none
PrevKept(block, i) ==
    IF \E m \in 1..(i - 1) : block[m].kind # "DebugRef"
    THEN CHOOSE m \in 1..(i - 1) :
             /\ block[m].kind # "DebugRef"
             /\ \A q \in (m + 1)..(i - 1) : block[q].kind = "DebugRef"
    ELSE 0

\* r directly follows a Call of a lock method
FollowsLockCall(r) ==
    LET block == ssaProg[r[1]][r[2]]
        m == PrevKept(block, r[3])
    IN  m > 0 /\ block[m].kind = "Call" /\ isCallToLock(block[m].call)

\* r defers the lock method of the call before it, on the same operand 0
DefersCallBefore(r, sameMethod) ==
    LET block == ssaProg[r[1]][r[2]]
        c == block[PrevKept(block, r[3])].call
        d == block[r[3]].call
    IN  /\ isCallToLock(d)
        /\ sameMethod => (c.invoke = d.invoke /\ c.fullName = d.fullName /\ c.method = d.method)
        /\ Len(c.args) > 0 /\ Len(d.args) > 0 /\ c.args[1] = d.args[1]

\* C15 (as stated): CheckDeferLock emits a diagnostic on a Defer instruction
\* if and only if, in the debug-filtered instruction list of a block, it
\* directly follows a Call to a lock method and is itself a deferred call to
\* the same lock method on the same operand 0; a block with fewer than two
\* non-debug instructions never produces a diagnostic, and a Lock followed
\* by a deferred RLock is not reported.
C15_DeferOfSameLockMethod ==
    ssaRan = "CheckDeferLock" =>
        /\ \A r \in DeferRefs :
            Reported(r) <=> (FollowsLockCall(r) /\ DefersCallBefore(r, TRUE))
        /\ \A k \in 1..Len(ssaDiags) :
            /\ ssaDiags[k].instr \in DeferRefs
            /\ Len(FilterDebug(ssaProg[ssaDiags[k].instr[1]][ssaDiags[k].instr[2]])) >= 2

\* What the code does instead: the method of the deferred call is not
\* compared with the method of the call before it.
C15_DeferOfAnyLockMethod ==
    ssaRan = "CheckDeferLock" =>
        /\ \A r \in DeferRefs :
            Reported(r) <=> (FollowsLockCall(r) /\ DefersCallBefore(r, FALSE))
        /\ \A k \in 1..Len(ssaDiags) :
            /\ ssaDiags[k].instr \in DeferRefs
            /\ Len(FilterDebug(ssaProg[ssaDiags[k].instr[1]][ssaDiags[k].instr[2]])) >= 2

\* CheckDeferLock runs to its end on every block (it does not: a lock call
\* without arguments followed by a deferred lock call makes Args[0] panic).
C15_DeferLockNeverPanics == ssaRan # "panic"

----------------------------------------------------------------------------
(* Specifications.  Each runs one part of the model; the variables of the  *)
(* other parts rest at their idle values.                                  *)

TextIdle ==
    /\ call = NoCall
    /\ textPc = "idle"
    /\ isLockRes = FALSE
    /\ isUnlockRes = FALSE
    /\ keyRes = Txt.Empty

LockIdle ==
    /\ prog = [f |-> NoBlocks, g |-> NoBlocks]
    /\ funcOrder = <<"f", "g">>
    /\ dlPc = "idle"
    /\ dlFirst = NoRef
    /\ dlSecond = NoRef
    /\ dlKey = Txt.Empty
    /\ dlRes = FALSE

DiagIdle ==
    /\ cdPc = "idle"
    /\ lockInstructions = [k \in LockKeys |-> <<>>]
    /\ keysLeft = {}
    /\ diags = <<>>
    /\ run = 0
    /\ firstDiags = <<>>
    /\ firstOrder = <<"f", "g">>

RewriteIdle ==
    /\ rwOrig = NoFunction
    /\ rwFn = NoFunction
    /\ rwOnce = NoFunction
    /\ rwCount = 0

InitIdle ==
    /\ mainPc = "idle"
    /\ t1Pc = "idle"
    /\ t2Pc = "idle"
    /\ wgCounter = 0
    /\ funcDescs = NilValue
    /\ allFunctions = <<>>
    /\ fnNext = 1
    /\ decls = <<>>
    /\ declNext = 1
    /\ deprecatedObjs = NilMap
    /\ checkerSaw = NoSnapshot

AstIdle ==
    /\ CheckGenerated = FALSE
    /\ files = <<>>
    /\ wgAddRan = FALSE
    /\ wgAddDiags = <<>>
    /\ emptyCsRan = FALSE
    /\ emptyCsDiags = <<>>

SsaIdle ==
    /\ ssaProg = [fn \in {} |-> <<>>]
    /\ ssaRan = "idle"
    /\ ssaDiags = <<>>

InitText == TextInit /\ LockIdle /\ DiagIdle /\ RewriteIdle /\ InitIdle /\ AstIdle /\ SsaIdle
InitLock == LockInit /\ TextIdle /\ DiagIdle /\ RewriteIdle /\ InitIdle /\ AstIdle /\ SsaIdle
InitDiag == DiagInit /\ TextIdle /\ RewriteIdle /\ InitIdle /\ AstIdle /\ SsaIdle
InitRewrite == RewriteInit /\ TextIdle /\ LockIdle /\ DiagIdle /\ InitIdle /\ AstIdle /\ SsaIdle
InitChecker == InitStart /\ TextIdle /\ LockIdle /\ DiagIdle /\ RewriteIdle /\ AstIdle /\ SsaIdle
InitAst == AstInit /\ TextIdle /\ LockIdle /\ DiagIdle /\ RewriteIdle /\ InitIdle /\ SsaIdle

InitTesting ==
    TestingInit /\ TextIdle /\ LockIdle /\ DiagIdle /\ RewriteIdle /\ InitIdle /\ AstIdle

InitDefer ==
    DeferInit /\ TextIdle /\ LockIdle /\ DiagIdle /\ RewriteIdle /\ InitIdle /\ AstIdle

\* The lock taxonomy applied to one call site.
SpecText == InitText /\ [][TextNext]_vars

\* The helpers of the double-lock analysis applied to one program.
SpecLock == InitLock /\ [][LockNext]_vars

\* CheckDoubleLock run twice on one program.
SpecDiag == InitDiag /\ [][DiagNext]_vars

\* applyStdlibKnowledge applied twice to one function.
SpecRewrite == InitRewrite /\ [][RewriteNext]_vars

\* Checker.Init, its two goroutines, and the first checker after it.
SpecInit == InitChecker /\ [][InitNext]_vars

\* CheckWaitgroupAdd and CheckEmptyCriticalSection run on one program.
SpecAst == InitAst /\ [][AstNext]_vars

\* CheckConcurrentTesting run on one program.
SpecTesting == InitTesting /\ [][TestingNext]_vars

\* CheckDeferLock run on one program.
SpecDefer == InitDefer /\ [][DeferNext]_vars

====
